---- MODULE Spec2Model ----
(***************************************************************************)
(* Session manager of the pyright playground server (sessionManager.ts).   *)
(*                                                                         *)
(* The server is a single node process: every handler below runs to        *)
(* completion between two suspension points (await, child-process event,   *)
(* timer callback), so each action is one such run.  A promise             *)
(* continuation that becomes runnable in the same turn (a .then on an      *)
(* already resolved promise) is part of the action that made it runnable.  *)
(* fork() reports its outcome ('spawn', or 'error' when the child could not *)
(* be started) from process.nextTick, that is before the turn that called  *)
(* startSession ends: while a child is "forked" no other handler runs.     *)
(*                                                                         *)
(* Time.  The code reads Date.now() only to store it in lastAccessTime     *)
(* and to compute curTime - lastAccessTime; the model keeps that           *)
(* difference (idleTime) instead of the two absolute values, and the       *)
(* timer as the time left until it is due.  The unit of time is the        *)
(* minute; a timer may fire late.                                          *)
(***************************************************************************)
EXTENDS Integers, FiniteSets, Sequences, TLC

\* ---------------------------------------------------------------- bounds
\* Number of createNewSession calls made in a run; the i-th call draws the
\* i-th uuid.
MaxSessions == 2

\* Number of versions the npm registry knows in a version query.
MaxIndexLen == 53

\* Timeouts pending at once that are told apart.
MaxTimers == 2

\* Number of getDiagnostics calls made on an LspClient in a run.
MaxDiagRequests == 2

\* The highest document version an LspClient reaches in a run.
MaxDocVersion == 3

\* Number of updateSettings calls made on an LspClient in a run.
MaxSettingsCalls == 3

\* ------------------------------------------------------------- constants
DiagIds == 1..MaxDiagRequests

SettingsIds == 1..MaxSettingsCalls

\* diagInfo.version ?? -1
NoVersionInDiags == -1

\* The versions a publishDiagnostics notification can carry.
DocVersions == {NoVersionInDiags} \cup 1..MaxDocVersion

\* _documentDiags === undefined
NoDiags == -2

\* Maximum number of pyright versions to return to the caller.
maxPyrightVersionCount == 50

\* Both are one minute in the code; the model's unit of time is the minute.
maxSessionLifetime == 1

lifetimeTimerFrequency == 1

Ids == 1..MaxSessions

\* Version strings known to the package index; NoVersion is an absent
\* sessionOptions.pyrightVersion.
Versions == {"1.0.1"}

NoVersion == "undefined"

\* What getSessionById returns for an id that is not in the map (undefined).
NotFound == 0

\* The version the package index reports as latest.
LatestVersion == "1.0.1"

\* The number of versions README.md says are retained under pyright_local.
CacheCapacity == 20

\* Versions installed by earlier runs of the server: pyright_local is on
\* disk and outlives the process.  The session manager only compares
\* version strings and builds directory names from them.
Preinstalled == {"0.9." \o ToString(i) : i \in 1..CacheCapacity}

\* The usage information the server keeps about the versions under
\* pyright_local (README.md: "Usage information is persisted"), as the set
\* of versions with a recorded time of last use: installPyright records
\* none, neither in memory nor on disk.
usageIndex == {}

\* The usage index on stable storage, as the set of versions it has an
\* entry for: the server writes no file besides the version directories
\* and the sessions' pyrightconfig.json, and reads none at startup.
persistedIndex == {}

\* ------------------------------------------------------ version strings
\* For the version queries a version string is the sequence of its parts,
\* so that what the code tests on it (includes('-'), truthiness) is computed
\* and not looked up: "1.1.7-dev" is <<"1", ".", "1", ".", "7", "-", "dev">>.
\* A JS value that may be a string or undefined is a record.
Undefined == [type |-> "undefined", value |-> << >>]

Str(v) == [type |-> "string", value |-> v]

\* The i-th release the registry knows, and a canary build of it.
Release(i) == <<"1", ".", "1", ".", ToString(i)>>

Canary(i) == Release(i) \o <<"-", "dev">>

\* The result of an async query: not called yet, resolved with a value, or
\* rejected.
NotCalled == [state |-> "none", value |-> << >>]

Resolved(x) == [state |-> "resolved", value |-> x]

Rejected == [state |-> "rejected", value |-> << >>]

\* The registry of a run that makes no version query.
NoRegistry == [up |-> TRUE, versions |-> << >>, version |-> Undefined]

\* ------------------------------------------------------- version queries
\* String.prototype.includes for a part of a version string ('-' is always
\* a part of its own).
includes(v, part) == \E k \in 1..Len(v) : v[k] = part

\* versions.filter((version) => !version.includes('-'))
filterCanary(versions) == SelectSeq(versions, LAMBDA v : ~includes(v, "-"))

\* Array.prototype.reverse
reverse(a) == [i \in 1..Len(a) |-> a[Len(a) + 1 - i]]

\* Array.prototype.slice(0, end)
slice(a, end) == SubSeq(a, 1, IF end < Len(a) THEN end ELSE Len(a))

\* Mutant of getPyrightVersions: the list is not reversed.
getPyrightVersions_NoReverse(reg) ==
    IF ~reg.up THEN Rejected
    ELSE Resolved(slice(filterCanary(reg.versions), maxPyrightVersionCount))

\* getPyrightVersions on the registry answer reg (reg.versions in the key
\* order of response.versions, oldest first); a failed query rejects.
getPyrightVersions(reg) ==
    IF ~reg.up THEN Rejected
    ELSE Resolved(slice(reverse(filterCanary(reg.versions)), maxPyrightVersionCount))

\* Mutant of getPyrightLatestVersion: no typeof test on response.version.
getPyrightLatestVersion_NoTypeCheck(reg) ==
    IF reg.up THEN Resolved(reg.version.value) ELSE Rejected

\* getPyrightLatestVersion: the version field of the registry answer.
getPyrightLatestVersion(reg) ==
    IF reg.up /\ reg.version.type = "string"
    THEN Resolved(reg.version.value)
    ELSE Rejected

\* if (requestedVersion): a non-empty string.
truthy(x) == x.type = "string" /\ x.value # << >>

\* The version installPyright works with: the requested one, or the latest.
resolveVersion(req, reg) ==
    IF truthy(req) THEN Resolved(req.value) ELSE getPyrightLatestVersion(reg)

\* ------------------------------------------------ pyrightconfig.json
\* If the caller doesn't specify the pythonVersion or pythonPlatform,
\* default to these.
defaultPythonVersion == <<"3", ".", "12">>

defaultPythonPlatform == <<"All">>

\* A JS boolean.
Bool(b) == [type |-> "boolean", value |-> b]

\* A JS object with the properties f (a function from keys to values).
Obj(f) == [type |-> "object", value |-> f]

\* The keys callers put into configOverrides: a pyright rule, and the names
\* of the two properties synthesizePyrightConfigFile computes or may omit.
OverrideKeys == {"reportMissingImports", "pythonVersion", "typeCheckingMode"}

\* The sessionOptions values: every string property absent, empty or set,
\* configOverrides absent or an object of booleans (empty included).  An
\* absent sessionOptions reads like one with every property absent
\* (sessionOptions?.x).
SessionOptionsSet ==
    [pythonVersion : {Undefined, Str(<< >>), Str(<<"3", ".", "13">>)},
     pythonPlatform : {Undefined, Str(<< >>), Str(<<"Linux">>)},
     typeCheckingMode : {Undefined, Str(<< >>), Str(<<"strict">>)},
     configOverrides : {Undefined} \cup
        UNION {{Obj(f) : f \in [K -> BOOLEAN]} : K \in SUBSET OverrideKeys}]

NoOptions == [pythonVersion |-> Undefined, pythonPlatform |-> Undefined,
              typeCheckingMode |-> Undefined, configOverrides |-> Undefined]

\* config[key] = value
Assign(config, key, value) ==
    [k \in DOMAIN config \cup {key} |-> IF k = key THEN value ELSE config[k]]

\* Object.keys(overrides).forEach((key) => config[key] = overrides[key])
AssignAll(config, overrides) ==
    [k \in DOMAIN config \cup DOMAIN overrides |->
        IF k \in DOMAIN overrides THEN Bool(overrides[k]) ELSE config[k]]

\* Mutant of synthesizePyrightConfigFile: the overrides are copied first,
\* the computed properties assigned after them.
synthesizePyrightConfigFile_OverridesFirst(opts) ==
    LET c0 == IF opts.configOverrides.type = "object"
              THEN AssignAll(<< >>, opts.configOverrides.value) ELSE << >>
        c1 == Assign(c0, "pythonVersion",
                     IF truthy(opts.pythonVersion) THEN opts.pythonVersion
                     ELSE Str(defaultPythonVersion))
        c2 == Assign(c1, "pythonPlatform",
                     IF truthy(opts.pythonPlatform) THEN opts.pythonPlatform
                     ELSE Str(defaultPythonPlatform))
    IN  IF truthy(opts.typeCheckingMode)
        THEN Assign(c2, "typeCheckingMode", opts.typeCheckingMode) ELSE c2

\* The config object synthesizePyrightConfigFile builds and writes, as a
\* function from its keys to their values.
synthesizePyrightConfigFile(opts) ==
    LET c1 == Assign(<< >>, "pythonVersion",
                     IF truthy(opts.pythonVersion) THEN opts.pythonVersion
                     ELSE Str(defaultPythonVersion))
        c2 == Assign(c1, "pythonPlatform",
                     IF truthy(opts.pythonPlatform) THEN opts.pythonPlatform
                     ELSE Str(defaultPythonPlatform))
        c3 == IF truthy(opts.typeCheckingMode)
              THEN Assign(c2, "typeCheckingMode", opts.typeCheckingMode) ELSE c2
    IN  IF opts.configOverrides.type = "object"
        THEN AssignAll(c3, opts.configOverrides.value) ELSE c3

\* No config file written yet.
NoFile == [written |-> FALSE, content |-> << >>]

\* Mutant of closeOrder: the worker is killed before the requests are
\* cancelled.
closeOrder_KillFirst == <<"kill", "cancelRequests", "clear", "delete", "rmSync">>

\* Mutant of closeOrder: the record is deleted after the directory was
\* removed.
closeOrder_RecordLast == <<"cancelRequests", "kill", "clear", "rmSync", "delete">>

\* The statements of closeSession after the lookup, in program order.
closeOrder == <<"cancelRequests", "kill", "clear", "delete", "rmSync">>

\* ----------------------------------------------------------------- state
VARIABLES
    pc,                 \* position of each createNewSession request
    version,            \* version chosen by installPyright for the request
    pyright_local,      \* versions whose ./pyright_local/<version> exists
    promise,            \* the promise createNewSession returned
    activeSessions,     \* keys of the activeSessions map
    idleTime,           \* Date.now() - lastAccessTime of each record of the map,
                        \* saturated above maxSessionLifetime; 0 for an id without record
    langServerProcess,  \* session.langServerProcess is defined
    langClient,         \* session.langClient is defined
    tempDir,            \* session.tempDirPath exists on disk
    proc,               \* the forked child process
    init,               \* langClient.initialize() handshake
    killCalls,          \* calls of langServerProcess.kill()
    rmCalls,            \* calls of fs.rmSync(tempDirPath)
    rmThrew,            \* the rmSync call of closeSession threw (and was caught)
    thrown,             \* an exception left closeSession
    found,              \* what the last getSessionById call returned
    lifetimeTimer,      \* lifetimeTimer is defined
    timerRemaining,     \* time until the armed timer is due
    registry,           \* what the npm registry holds for the package
    requestedVersion,   \* the requestedVersion argument of a version resolution
    listed,             \* what getPyrightVersions returned
    resolved,           \* the version installPyright resolved
    sessionOptions,     \* the sessionOptions argument of synthesizePyrightConfigFile
    configFile,         \* pyrightconfig.json in the session's temp directory
    closing,            \* the closeSession call that is executing, and its position
    requests,           \* the protocol request each session's client has in flight
    pendingTimers,      \* setTimeout callbacks scheduled and not yet run
    timerPc,            \* position inside the setTimeout callback
    documentVersion,    \* LspClient._documentVersion
    documentDiags,      \* version of LspClient._documentDiags, NoDiags if undefined
    pendingDiagRequests, \* LspClient._pendingDiagRequests: version -> queued calls
    diagCalls,          \* the getDiagnostics calls: position, version, promise, callbacks
    connection,         \* LspClient.connection: the connection stored, 0 if undefined
    workers,            \* per connection created: are its workers alive
    settingsCalls       \* position of each updateSettings call

\* What closeSession writes.
closeVars == <<activeSessions, idleTime, langServerProcess, killCalls, rmCalls,
               rmThrew, thrown, tempDir>>

\* What the version queries (getPyrightVersions, version resolution) read and write.
indexVars == <<registry, requestedVersion, listed, resolved>>

\* What synthesizePyrightConfigFile reads and writes.
configVars == <<sessionOptions, configFile>>

\* The state of a run that synthesizes no config file.
ConfigIdle == sessionOptions = NoOptions /\ configFile = NoFile

\* The position inside closeSession and the clients' requests.
closeStepVars == <<closing, requests>>

\* No closeSession call is executing.
NotClosing == [id |-> NotFound, at |-> 0]

\* The state of a run in which closeSession is one step and the clients
\* have no request in flight.
CloseIdle == closing = NotClosing /\ requests = [s \in Ids |-> "none"]

\* The timeouts and the position inside the timer callback.
timerStepVars == <<pendingTimers, timerPc>>

\* The state of a run in which the timer callback is one step.
TimerIdle == pendingTimers = 0 /\ timerPc = "idle"

\* The LspClient of the playground's browser side.
clientVars == <<documentVersion, documentDiags, pendingDiagRequests, diagCalls,
                connection, workers, settingsCalls>>

\* A getDiagnostics call that was not made.
NoCall == [pc |-> "none", version |-> 0, promise |-> "none", callbacks |-> 0]

\* An LspClient after construction, no call made.
ClientIdle ==
    /\ documentVersion = 1
    /\ documentDiags = NoDiags
    /\ pendingDiagRequests = [v \in DocVersions |-> {}]
    /\ diagCalls = [r \in DiagIds |-> NoCall]
    /\ connection = 0
    /\ workers = << >>
    /\ settingsCalls = [c \in SettingsIds |-> "none"]

\* What the handlers of the session manager leave alone.
pureVars == <<indexVars, configVars, closeStepVars, timerStepVars, clientVars>>


\* What the session manager's handlers read and write.
sessionVars == <<pc, version, pyright_local, promise, activeSessions, idleTime,
                 langServerProcess, langClient, tempDir, proc, init, killCalls,
                 rmCalls, rmThrew, thrown, found, lifetimeTimer, timerRemaining>>

\* Everything but the browser-side LspClient.
serverVars == <<sessionVars, indexVars, configVars, closeStepVars, timerStepVars>>

vars == <<pc, version, pyright_local, promise, activeSessions, idleTime,
          langServerProcess, langClient, tempDir, proc, init, killCalls, rmCalls,
          rmThrew, thrown, found, lifetimeTimer, timerRemaining,
          registry, requestedVersion, listed, resolved,
          sessionOptions, configFile, closing, requests,
          pendingTimers, timerPc,
          documentVersion, documentDiags, pendingDiagRequests, diagCalls,
          connection, workers, settingsCalls>>

TypeOK ==
    /\ pc \in [Ids -> {"new", "latest", "mkdir", "install", "started", "failed"}]
    /\ version \in [Ids -> Versions \cup {NoVersion}]
    /\ pyright_local \subseteq Versions \cup Preinstalled
    /\ promise \in [Ids -> {"none", "pending", "resolved", "rejected"}]
    /\ activeSessions \subseteq Ids
    /\ idleTime \in [Ids -> 0..(maxSessionLifetime + 1)]
    /\ langServerProcess \in [Ids -> BOOLEAN]
    /\ langClient \in [Ids -> BOOLEAN]
    /\ tempDir \in [Ids -> BOOLEAN]
    /\ proc \in [Ids -> {"none", "forked", "running", "failed", "exited", "closed"}]
    /\ init \in [Ids -> {"none", "pending", "ok", "failed"}]
    /\ killCalls \in [Ids -> Nat]
    /\ rmCalls \in [Ids -> Nat]
    /\ rmThrew \in [Ids -> BOOLEAN]
    /\ thrown \in BOOLEAN
    /\ found \in Ids \cup {NotFound}
    /\ lifetimeTimer \in BOOLEAN
    /\ timerRemaining \in 0..lifetimeTimerFrequency
    /\ registry.up \in BOOLEAN
    /\ registry.versions \in Seq(Seq(STRING))
    /\ registry.version.type \in {"undefined", "string"}
    /\ requestedVersion.type \in {"undefined", "string"}
    /\ listed.state \in {"none", "resolved", "rejected"}
    /\ listed.value \in Seq(Seq(STRING))
    /\ resolved.state \in {"none", "resolved", "rejected"}
    /\ resolved.value \in Seq(STRING)
    /\ sessionOptions \in SessionOptionsSet
    /\ configFile.written \in BOOLEAN
    /\ closing.id \in Ids \cup {NotFound}
    /\ closing.at \in 0..Len(closeOrder)
    /\ requests \in [Ids -> {"none", "pending", "cancelled", "answered", "stale"}]
    /\ pendingTimers \in 0..MaxTimers
    /\ timerPc \in {"idle", "cleared", "swept"}
    /\ documentVersion \in 1..MaxDocVersion
    /\ documentDiags \in DocVersions \cup {NoDiags}
    /\ pendingDiagRequests \in [DocVersions -> SUBSET DiagIds]
    /\ diagCalls \in [DiagIds ->
            [pc : {"none", "updating", "queued", "returned", "failed"},
             version : 0..MaxDocVersion,
             promise : {"none", "pending", "resolved", "rejected"},
             callbacks : Nat]]
    /\ connection \in 0..MaxSettingsCalls
    /\ workers \in Seq(BOOLEAN)
    /\ settingsCalls \in [SettingsIds -> {"none", "versions", "done", "failed"}]

Init ==
    /\ pc = [s \in Ids |-> "new"]
    /\ version = [s \in Ids |-> NoVersion]
    /\ pyright_local = {}
    /\ promise = [s \in Ids |-> "none"]
    /\ activeSessions = {}
    /\ idleTime = [s \in Ids |-> 0]
    /\ langServerProcess = [s \in Ids |-> FALSE]
    /\ langClient = [s \in Ids |-> FALSE]
    /\ tempDir = [s \in Ids |-> FALSE]
    /\ proc = [s \in Ids |-> "none"]
    /\ init = [s \in Ids |-> "none"]
    /\ killCalls = [s \in Ids |-> 0]
    /\ rmCalls = [s \in Ids |-> 0]
    /\ rmThrew = [s \in Ids |-> FALSE]
    /\ thrown = FALSE
    /\ found = NotFound
    /\ lifetimeTimer = FALSE
    /\ timerRemaining = 0
    /\ registry = NoRegistry
    /\ requestedVersion = Undefined
    /\ listed = NotCalled
    /\ resolved = NotCalled
    /\ ConfigIdle
    /\ CloseIdle
    /\ TimerIdle
    /\ ClientIdle

\* ------------------------------------------------------------- promises
\* resolve() and reject() of a promise that is already settled do nothing.
Settle(p, outcome) == IF p = "pending" THEN outcome ELSE p

\* ---------------------------------------------------------- closeSession
\* Mutant of closeSession: no test that the id is in the map.
closeSession_NoLookup(S, rmFails) ==
    LET C == S
        K == {s \in C : langServerProcess[s]}
    IN  /\ killCalls' = [s \in Ids |->
                IF s \in K THEN killCalls[s] + 1 ELSE killCalls[s]]
        /\ langServerProcess' = [s \in Ids |->
                IF s \in C THEN FALSE ELSE langServerProcess[s]]
        /\ activeSessions' = activeSessions \ C
        /\ rmCalls' = [s \in Ids |->
                IF s \in C THEN rmCalls[s] + 1 ELSE rmCalls[s]]
        /\ tempDir' = [s \in Ids |->
                IF s \in C /\ s \notin rmFails THEN FALSE ELSE tempDir[s]]
        /\ rmThrew' = [s \in Ids |-> IF s \in C THEN s \in rmFails ELSE rmThrew[s]]
        /\ idleTime' = [s \in Ids |-> IF s \in C THEN 0 ELSE idleTime[s]]
        /\ thrown' = thrown

\* Mutant of closeSession: rmSync outside the try block.
closeSession_RmUncaught(S, rmFails) ==
    LET C == S \cap activeSessions
        K == {s \in C : langServerProcess[s]}
    IN  /\ killCalls' = [s \in Ids |->
                IF s \in K THEN killCalls[s] + 1 ELSE killCalls[s]]
        /\ langServerProcess' = [s \in Ids |->
                IF s \in C THEN FALSE ELSE langServerProcess[s]]
        /\ activeSessions' = activeSessions \ C
        /\ rmCalls' = [s \in Ids |->
                IF s \in C THEN rmCalls[s] + 1 ELSE rmCalls[s]]
        /\ tempDir' = [s \in Ids |->
                IF s \in C /\ s \notin rmFails THEN FALSE ELSE tempDir[s]]
        /\ rmThrew' = [s \in Ids |-> IF s \in C THEN s \in rmFails ELSE rmThrew[s]]
        /\ idleTime' = [s \in Ids |-> IF s \in C THEN 0 ELSE idleTime[s]]
        /\ thrown' = (thrown \/ C \cap rmFails # {})

\* Mutant of closeSession: the worker is not killed.
closeSession_NoKill(S, rmFails) ==
    LET C == S \cap activeSessions
    IN  /\ killCalls' = killCalls
        /\ langServerProcess' = [s \in Ids |->
                IF s \in C THEN FALSE ELSE langServerProcess[s]]
        /\ activeSessions' = activeSessions \ C
        /\ rmCalls' = [s \in Ids |->
                IF s \in C THEN rmCalls[s] + 1 ELSE rmCalls[s]]
        /\ tempDir' = [s \in Ids |->
                IF s \in C /\ s \notin rmFails THEN FALSE ELSE tempDir[s]]
        /\ rmThrew' = [s \in Ids |-> IF s \in C THEN s \in rmFails ELSE rmThrew[s]]
        /\ idleTime' = [s \in Ids |-> IF s \in C THEN 0 ELSE idleTime[s]]
        /\ thrown' = thrown

\* closeSession(sessionId) for every sessionId of S.  rmFails are the ids
\* whose rmSync throws (caught and ignored).  kill() only requests the end
\* of the child: whether and when the child ends after it (OnExit) is the
\* environment's choice, which covers a kill() that returns false.
closeSession(S, rmFails) ==
    LET C == S \cap activeSessions
        K == {s \in C : langServerProcess[s]}
    IN  /\ killCalls' = [s \in Ids |->
                IF s \in K THEN killCalls[s] + 1 ELSE killCalls[s]]
        /\ langServerProcess' = [s \in Ids |->
                IF s \in C THEN FALSE ELSE langServerProcess[s]]
        /\ activeSessions' = activeSessions \ C
        /\ rmCalls' = [s \in Ids |->
                IF s \in C THEN rmCalls[s] + 1 ELSE rmCalls[s]]
        /\ tempDir' = [s \in Ids |->
                IF s \in C /\ s \notin rmFails THEN FALSE ELSE tempDir[s]]
        /\ rmThrew' = [s \in Ids |-> IF s \in C THEN s \in rmFails ELSE rmThrew[s]]
        /\ idleTime' = [s \in Ids |-> IF s \in C THEN 0 ELSE idleTime[s]]
        /\ thrown' = thrown

\* closeSession over S with every outcome the file system can give.
closeSessions(S) ==
    \E rmFails \in SUBSET (S \cap activeSessions) : closeSession(S, rmFails)

\* ---------------------------------------------- scheduleSessionLifetimeTimer
\* The timer state after scheduleSessionLifetimeTimer() is called in the
\* timer state <<armed, remaining>>.
scheduleSessionLifetimeTimer(armed, remaining) ==
    IF armed THEN <<armed, remaining>>
    ELSE <<TRUE, lifetimeTimerFrequency>>

\* No child is waiting for the nextTick report of its fork: the turn that
\* called startSession has ended.
TurnEnded == \A s \in Ids : proc[s] # "forked"

\* ------------------------------------------------------------ startSession
\* Mutant of startSession: the session record is not put into the map.
startSession_Untracked(s) ==
    /\ tempDir' = [tempDir EXCEPT ![s] = TRUE]
    /\ proc' = [proc EXCEPT ![s] = "forked"]
    /\ idleTime' = [idleTime EXCEPT ![s] = 0]
    /\ activeSessions' = activeSessions
    /\ pc' = [pc EXCEPT ![s] = "started"]

\* The synchronous body of startSession (the promise executor): temp
\* directory, fork, session record, activeSessions.set.  The config file
\* written into the directory does not influence the lifecycle.
startSession(s) ==
    /\ tempDir' = [tempDir EXCEPT ![s] = TRUE]
    /\ proc' = [proc EXCEPT ![s] = "forked"]
    /\ idleTime' = [idleTime EXCEPT ![s] = 0]
    /\ activeSessions' = activeSessions \cup {s}
    /\ pc' = [pc EXCEPT ![s] = "started"]

\* Mutant of installPyright: no existsSync test, every request installs.
installPyright_NoExistsCheck(s, v) ==
    /\ version' = [version EXCEPT ![s] = v]
    /\ pc' = [pc EXCEPT ![s] = "mkdir"]
    /\ UNCHANGED <<tempDir, proc, idleTime, activeSessions, found>>

\* installPyright from the point where the version is known: the
\* existsSync test, and on a hit the .then of createNewSession.
installPyright(s, v) ==
    /\ version' = [version EXCEPT ![s] = v]
    /\ IF v \in pyright_local
       THEN startSession(s)
       ELSE /\ pc' = [pc EXCEPT ![s] = "mkdir"]
            /\ UNCHANGED <<tempDir, proc, idleTime, activeSessions, found>>

\* createNewSession(sessionOptions) with sessionOptions.pyrightVersion = v.
CreateNewSession(s, v) ==
    /\ TurnEnded
    /\ pc[s] = "new" /\ promise[s] = "none"
    /\ \A r \in Ids : r < s => promise[r] # "none"
    /\ LET t == scheduleSessionLifetimeTimer(lifetimeTimer, timerRemaining)
       IN  lifetimeTimer' = t[1] /\ timerRemaining' = t[2]
    /\ promise' = [promise EXCEPT ![s] = "pending"]
    /\ IF v = NoVersion
       THEN /\ pc' = [pc EXCEPT ![s] = "latest"]
            /\ UNCHANGED <<version, tempDir, proc, idleTime, activeSessions, found>>
       ELSE installPyright(s, v)
    /\ UNCHANGED <<pyright_local, langServerProcess, langClient, init,
                   killCalls, rmCalls, rmThrew, thrown, found>>
    /\ UNCHANGED pureVars

\* getPyrightLatestVersion resolved; installPyright continues.
LatestVersionOk(s) ==
    /\ TurnEnded
    /\ pc[s] = "latest"
    /\ installPyright(s, LatestVersion)
    /\ UNCHANGED <<pyright_local, promise, langServerProcess, langClient, init, killCalls, rmCalls, rmThrew, thrown, lifetimeTimer, timerRemaining, found>>
    /\ UNCHANGED pureVars

\* Mutant of LatestVersionFail: the scratch directory was made before the
\* version was resolved and stays behind when the resolution fails.
LatestVersionFail_ScratchLeft(s) ==
    /\ TurnEnded
    /\ pc[s] = "latest"
    /\ pc' = [pc EXCEPT ![s] = "failed"]
    /\ promise' = [promise EXCEPT ![s] = Settle(promise[s], "rejected")]
    /\ tempDir' = [tempDir EXCEPT ![s] = TRUE]
    /\ UNCHANGED <<version, pyright_local, activeSessions, idleTime,
                   langServerProcess, langClient, proc, init,
                   killCalls, rmCalls, rmThrew, thrown, found, lifetimeTimer,
                   timerRemaining>>
    /\ UNCHANGED pureVars

\* getPyrightLatestVersion rejected: installPyright and createNewSession reject.
LatestVersionFail(s) ==
    /\ TurnEnded
    /\ pc[s] = "latest"
    /\ pc' = [pc EXCEPT ![s] = "failed"]
    /\ promise' = [promise EXCEPT ![s] = Settle(promise[s], "rejected")]
    /\ UNCHANGED <<version, pyright_local, activeSessions, idleTime,
                   langServerProcess, langClient, tempDir, proc, init,
                   killCalls, rmCalls, rmThrew, thrown, found, lifetimeTimer,
          timerRemaining>>
    /\ UNCHANGED pureVars

\* mkdir(dirName/node_modules, recursive) completed: the directory exists and
\* manager.install is called (pc "install" while it runs).
MkdirDone(s) ==
    /\ TurnEnded
    /\ pc[s] = "mkdir"
    /\ pc' = [pc EXCEPT ![s] = "install"]
    /\ pyright_local' = pyright_local \cup {version[s]}
    /\ UNCHANGED <<version, promise, activeSessions, idleTime, langServerProcess,
                   langClient, tempDir, proc, init, killCalls, rmCalls, rmThrew, thrown, lifetimeTimer, timerRemaining, found>>
    /\ UNCHANGED pureVars

\* Mutant of InstallOk: an eviction pass after the install that removes a
\* version without asking whether a session runs from it.
InstallOk_EvictUnpinned(s) ==
    /\ TurnEnded
    /\ pc[s] = "install"
    /\ startSession(s)
    /\ IF Cardinality(pyright_local) > CacheCapacity
       THEN \E victim \in pyright_local : pyright_local' = pyright_local \ {victim}
       ELSE pyright_local' = pyright_local
    /\ UNCHANGED <<version, promise, langServerProcess, langClient,
                   init, killCalls, rmCalls, rmThrew, thrown, lifetimeTimer, timerRemaining, found>>
    /\ UNCHANGED pureVars

\* manager.install resolved: installPyright returns and startSession runs.
InstallOk(s) ==
    /\ TurnEnded
    /\ pc[s] = "install"
    /\ startSession(s)
    /\ UNCHANGED <<version, pyright_local, promise, langServerProcess, langClient,
                   init, killCalls, rmCalls, rmThrew, thrown, lifetimeTimer, timerRemaining, found>>
    /\ UNCHANGED pureVars

\* Mutant of InstallFail: an eviction pass runs also after a failed install.
InstallFail_Evict(s) ==
    /\ TurnEnded
    /\ pc[s] \in {"mkdir", "install"}
    /\ pc' = [pc EXCEPT ![s] = "failed"]
    /\ promise' = [promise EXCEPT ![s] = Settle(promise[s], "rejected")]
    /\ IF Cardinality(pyright_local) > CacheCapacity
       THEN \E victim \in pyright_local \ {version[s]} :
                pyright_local' = pyright_local \ {victim}
       ELSE pyright_local' = pyright_local
    /\ UNCHANGED <<version, activeSessions, idleTime,
                   langServerProcess, langClient, tempDir, proc, init,
                   killCalls, rmCalls, rmThrew, thrown, found, lifetimeTimer,
                   timerRemaining>>
    /\ UNCHANGED pureVars

\* mkdir or manager.install rejected: the catch block throws.
InstallFail(s) ==
    /\ TurnEnded
    /\ pc[s] \in {"mkdir", "install"}
    /\ pc' = [pc EXCEPT ![s] = "failed"]
    /\ promise' = [promise EXCEPT ![s] = Settle(promise[s], "rejected")]
    /\ UNCHANGED <<version, pyright_local, activeSessions, idleTime,
                   langServerProcess, langClient, tempDir, proc, init,
                   killCalls, rmCalls, rmThrew, thrown, found, lifetimeTimer,
          timerRemaining>>
    /\ UNCHANGED pureVars

\* ------------------------------------------------- child-process events
\* Mutant of OnSpawn: the spawn handler resolves the creation request
\* without waiting for initialize.
OnSpawn_ResolveEarly(s) ==
    /\ proc[s] = "forked"
    /\ proc' = [proc EXCEPT ![s] = "running"]
    /\ langServerProcess' = [langServerProcess EXCEPT ![s] = TRUE]
    /\ langClient' = [langClient EXCEPT ![s] = TRUE]
    /\ init' = [init EXCEPT ![s] = "pending"]
    /\ promise' = [promise EXCEPT ![s] = Settle(promise[s], "resolved")]
    /\ UNCHANGED <<pc, version, pyright_local, activeSessions, idleTime,
                   tempDir, killCalls, rmCalls, rmThrew, thrown,
                   lifetimeTimer, timerRemaining, found>>
    /\ UNCHANGED pureVars

\* 'spawn': the child started; the handler stores the process handle,
\* creates the LspClient and starts the initialize handshake.
OnSpawn(s) ==
    /\ proc[s] = "forked"
    /\ proc' = [proc EXCEPT ![s] = "running"]
    /\ langServerProcess' = [langServerProcess EXCEPT ![s] = TRUE]
    /\ langClient' = [langClient EXCEPT ![s] = TRUE]
    /\ init' = [init EXCEPT ![s] = "pending"]
    /\ UNCHANGED <<pc, version, pyright_local, promise, activeSessions, idleTime,
                   tempDir, killCalls, rmCalls, rmThrew, thrown, lifetimeTimer, timerRemaining, found>>
    /\ UNCHANGED pureVars

\* Mutant of onError: the handler rejects but does not close the session.
onError_NoClose(s) ==
    /\ promise' = [promise EXCEPT ![s] =
            IF ~langServerProcess[s] THEN Settle(promise[s], "rejected") ELSE promise[s]]
    /\ UNCHANGED closeVars

\* The 'error' handler: reject when the handle is not set, then close.
onError(s) ==
    /\ promise' = [promise EXCEPT ![s] =
            IF ~langServerProcess[s] THEN Settle(promise[s], "rejected") ELSE promise[s]]
    /\ closeSessions({s})

\* 'error' because the child could not be spawned.
OnSpawnError(s) ==
    /\ proc[s] = "forked"
    /\ proc' = [proc EXCEPT ![s] = "failed"]
    /\ onError(s)
    /\ UNCHANGED <<pc, version, pyright_local, langClient, init,
                   lifetimeTimer, timerRemaining, found>>
    /\ UNCHANGED pureVars

\* 'error' emitted by a child that was spawned (a signal or a message
\* could not be delivered).
OnRuntimeError(s) ==
    /\ TurnEnded
    /\ proc[s] = "running"
    /\ onError(s)
    /\ UNCHANGED <<pc, version, pyright_local, langClient, init, proc,
                   lifetimeTimer, timerRemaining, found>>
    /\ UNCHANGED pureVars

\* Mutant of OnExit: the 'exit' handler only logs.
OnExit_NoClose(s) ==
    /\ TurnEnded
    /\ proc[s] = "running"
    /\ proc' = [proc EXCEPT ![s] = "exited"]
    /\ UNCHANGED closeVars
    /\ UNCHANGED <<pc, version, pyright_local, promise, langClient, init,
                   lifetimeTimer, timerRemaining, found>>
    /\ UNCHANGED pureVars

\* 'exit': the child ended, by itself or by a signal.
OnExit(s) ==
    /\ TurnEnded
    /\ proc[s] = "running"
    /\ proc' = [proc EXCEPT ![s] = "exited"]
    /\ closeSessions({s})
    /\ UNCHANGED <<pc, version, pyright_local, promise, langClient, init,
                   lifetimeTimer, timerRemaining, found>>
    /\ UNCHANGED pureVars

\* Mutant of OnClose: the handler cleans up by itself, without the lookup
\* of closeSession.
OnClose_OwnCleanup(s) ==
    /\ TurnEnded
    /\ proc[s] \in {"exited", "failed"}
    /\ proc' = [proc EXCEPT ![s] = "closed"]
    /\ activeSessions' = activeSessions \ {s}
    /\ rmCalls' = [rmCalls EXCEPT ![s] = rmCalls[s] + 1]
    /\ tempDir' = [tempDir EXCEPT ![s] = FALSE]
    /\ langServerProcess' = [langServerProcess EXCEPT ![s] = FALSE]
    /\ UNCHANGED <<killCalls, rmThrew, idleTime, thrown>>
    /\ UNCHANGED <<pc, version, pyright_local, promise, langClient, init,
                   lifetimeTimer, timerRemaining, found>>
    /\ UNCHANGED pureVars

\* 'close': the stdio streams of an ended child closed.
OnClose(s) ==
    /\ TurnEnded
    /\ proc[s] \in {"exited", "failed"}
    /\ proc' = [proc EXCEPT ![s] = "closed"]
    /\ closeSessions({s})
    /\ UNCHANGED <<pc, version, pyright_local, promise, langClient, init,
                   lifetimeTimer, timerRemaining, found>>
    /\ UNCHANGED pureVars

\* Mutant of InitializeOk: the handshake completion stores the session in
\* the map again.
InitializeOk_Reinsert(s) ==
    /\ TurnEnded
    /\ init[s] = "pending" /\ proc[s] = "running"
    /\ init' = [init EXCEPT ![s] = "ok"]
    /\ promise' = [promise EXCEPT ![s] = Settle(promise[s], "resolved")]
    /\ activeSessions' = activeSessions \cup {s}
    /\ UNCHANGED <<pc, version, pyright_local, idleTime,
                   langServerProcess, langClient, tempDir, proc, killCalls, rmCalls, rmThrew, thrown, lifetimeTimer, timerRemaining, found>>
    /\ UNCHANGED pureVars

\* langClient.initialize resolved (the child answered): resolve(sessionId).
InitializeOk(s) ==
    /\ TurnEnded
    /\ init[s] = "pending" /\ proc[s] = "running"
    /\ init' = [init EXCEPT ![s] = "ok"]
    /\ promise' = [promise EXCEPT ![s] = Settle(promise[s], "resolved")]
    /\ UNCHANGED <<pc, version, pyright_local, activeSessions, idleTime,
                   langServerProcess, langClient, tempDir, proc, killCalls, rmCalls, rmThrew, thrown, lifetimeTimer, timerRemaining, found>>
    /\ UNCHANGED pureVars

\* Mutant of InitializeFail: the catch handler rejects without closeSession.
InitializeFail_NoClose(s) ==
    /\ TurnEnded
    /\ init[s] = "pending"
    /\ init' = [init EXCEPT ![s] = "failed"]
    /\ promise' = [promise EXCEPT ![s] = Settle(promise[s], "rejected")]
    /\ UNCHANGED closeVars
    /\ UNCHANGED <<pc, version, pyright_local, langClient, proc,
                   lifetimeTimer, timerRemaining, found>>
    /\ UNCHANGED pureVars

\* langClient.initialize rejected: reject, then closeSession(sessionId).
InitializeFail(s) ==
    /\ TurnEnded
    /\ init[s] = "pending"
    /\ init' = [init EXCEPT ![s] = "failed"]
    /\ promise' = [promise EXCEPT ![s] = Settle(promise[s], "rejected")]
    /\ closeSessions({s})
    /\ UNCHANGED <<pc, version, pyright_local, langClient, proc,
                   lifetimeTimer, timerRemaining, found>>
    /\ UNCHANGED pureVars

\* ------------------------------------------------------ the callers' API
\* A caller holds the ids createNewSession resolved with; any other id it
\* passes is a string that is not a key of the map.
Known(s) == promise[s] = "resolved" \/ s \notin activeSessions

\* activeSessions.get(id): the session (named by its id) or undefined.
SessionOf(s) == IF s \in activeSessions THEN s ELSE NotFound

\* Mutant of GetSessionById: the lookup does not refresh lastAccessTime.
GetSessionById_NoTouch(s) ==
    /\ TurnEnded
    /\ Known(s)
    /\ found' = SessionOf(s)
    /\ UNCHANGED <<pc, version, pyright_local, promise, activeSessions, idleTime,
                   langServerProcess, langClient, tempDir, proc, init,
                   killCalls, rmCalls, rmThrew, thrown, lifetimeTimer, timerRemaining>>
    /\ UNCHANGED pureVars

GetSessionById(s) ==
    /\ TurnEnded
    /\ Known(s)
    /\ idleTime' = [idleTime EXCEPT ![s] =
            IF SessionOf(s) # NotFound THEN 0 ELSE idleTime[s]]
    /\ found' = SessionOf(s)
    /\ UNCHANGED <<pc, version, pyright_local, promise, activeSessions,
                   langServerProcess, langClient, tempDir, proc, init,
                   killCalls, rmCalls, rmThrew, thrown, lifetimeTimer, timerRemaining>>
    /\ UNCHANGED pureVars

CloseSession(s) ==
    /\ TurnEnded
    /\ Known(s)
    /\ closeSessions({s})
    /\ UNCHANGED <<pc, version, pyright_local, promise, langClient, proc,
                   init, lifetimeTimer, timerRemaining, found>>
    /\ UNCHANGED pureVars

\* ------------------------------------------------------- the idle reaper
\* Mutant of timedOut: the sweep also closes a session idle for exactly
\* maxSessionLifetime.
timedOut_GreaterEq == {s \in activeSessions : idleTime[s] >= maxSessionLifetime}

\* The sessions the sweep closes: curTime - lastAccessTime > maxSessionLifetime.
timedOut == {s \in activeSessions : idleTime[s] > maxSessionLifetime}

\* The test after the sweep that decides whether the timer is armed again,
\* on the sessions left in the map.
rescheduleAfterSweep(remaining) == remaining = {}

\* The setTimeout callback.
LifetimeTimerFire ==
    /\ TurnEnded
    /\ lifetimeTimer /\ timerRemaining = 0
    /\ closeSessions(timedOut)
    /\ LET t == IF rescheduleAfterSweep(activeSessions')
                THEN scheduleSessionLifetimeTimer(FALSE, 0)
                ELSE <<FALSE, 0>>
       IN  lifetimeTimer' = t[1] /\ timerRemaining' = t[2]
    /\ UNCHANGED <<pc, version, pyright_local, promise, langClient, proc,
                   init, found>>
    /\ UNCHANGED pureVars

\* One unit of time passes.
Tick ==
    /\ TurnEnded
    /\ idleTime' = [s \in Ids |->
            IF s \in activeSessions /\ idleTime[s] <= maxSessionLifetime
            THEN idleTime[s] + 1 ELSE idleTime[s]]
    /\ timerRemaining' = IF lifetimeTimer /\ timerRemaining > 0
                         THEN timerRemaining - 1 ELSE timerRemaining
    /\ UNCHANGED <<pc, version, pyright_local, promise, activeSessions,
                   langServerProcess, langClient, tempDir, proc, init,
                   killCalls, rmCalls, rmThrew, thrown, lifetimeTimer, found>>
    /\ UNCHANGED pureVars

\* --------------------------------------------------------- specification
Next ==
    \/ \E s \in Ids, v \in Versions \cup {NoVersion} : CreateNewSession(s, v)
    \/ \E s \in Ids : LatestVersionOk(s)
    \/ \E s \in Ids : LatestVersionFail(s)
    \/ \E s \in Ids : MkdirDone(s)
    \/ \E s \in Ids : InstallOk(s)
    \/ \E s \in Ids : InstallFail(s)
    \/ \E s \in Ids : OnSpawn(s)
    \/ \E s \in Ids : OnSpawnError(s)
    \/ \E s \in Ids : OnRuntimeError(s)
    \/ \E s \in Ids : OnExit(s)
    \/ \E s \in Ids : OnClose(s)
    \/ \E s \in Ids : InitializeOk(s)
    \/ \E s \in Ids : InitializeFail(s)
    \/ \E s \in Ids : GetSessionById(s)
    \/ \E s \in Ids : CloseSession(s)
    \/ LifetimeTimerFire
    \/ Tick

Spec == Init /\ [][Next]_vars

\* Time passes and a due timer fires; nothing else is forced to happen.
FairSpec == Spec /\ WF_vars(Tick) /\ WF_vars(LifetimeTimerFire)

\* What the environment of a creation request owes it: the registry query,
\* mkdir and manager.install complete one way or the other, fork reports
\* 'spawn' or 'error', an ended child's streams close, and a running
\* worker answers initialize.  Nothing obliges a worker that has ended to
\* answer, and nothing in startSession waits for a limited time.
ProgressSpec ==
    /\ FairSpec
    /\ \A s \in Ids :
          /\ WF_vars(LatestVersionOk(s) \/ LatestVersionFail(s))
          /\ WF_vars(MkdirDone(s) \/ InstallOk(s) \/ InstallFail(s))
          /\ WF_vars(OnSpawn(s) \/ OnSpawnError(s))
          /\ WF_vars(OnClose(s))
          /\ WF_vars(proc[s] = "running" /\ (InitializeOk(s) \/ InitializeFail(s)))

\* ------------------------------------------------- a server with a full cache
\* The same number of versions left by earlier runs, the version the
\* requests of this run ask for among them.
WarmDisk == {"0.9." \o ToString(i) : i \in 1..(CacheCapacity - 1)} \cup Versions

\* The server starts on a disk where earlier runs left CacheCapacity
\* versions under pyright_local, with or without the version the requests
\* of this run ask for.
CacheInit ==
    /\ pyright_local \in {Preinstalled, WarmDisk}
    /\ pc = [s \in Ids |-> "new"]
    /\ version = [s \in Ids |-> NoVersion]
    /\ promise = [s \in Ids |-> "none"]
    /\ activeSessions = {}
    /\ idleTime = [s \in Ids |-> 0]
    /\ langServerProcess = [s \in Ids |-> FALSE]
    /\ langClient = [s \in Ids |-> FALSE]
    /\ tempDir = [s \in Ids |-> FALSE]
    /\ proc = [s \in Ids |-> "none"]
    /\ init = [s \in Ids |-> "none"]
    /\ killCalls = [s \in Ids |-> 0]
    /\ rmCalls = [s \in Ids |-> 0]
    /\ rmThrew = [s \in Ids |-> FALSE]
    /\ thrown = FALSE
    /\ found = NotFound
    /\ lifetimeTimer = FALSE
    /\ timerRemaining = 0
    /\ registry = NoRegistry
    /\ requestedVersion = Undefined
    /\ listed = NotCalled
    /\ resolved = NotCalled
    /\ ConfigIdle
    /\ CloseIdle
    /\ TimerIdle
    /\ ClientIdle

CacheSpec == CacheInit /\ [][Next]_vars

\* ------------------------------------------------- the version queries alone
\* A registry answer with n versions, those at the positions H canaries.
IndexOf(n, H) == [i \in 1..n |-> IF i \in H THEN Canary(i) ELSE Release(i)]

\* The registry answers a query can get: any length up to MaxIndexLen,
\* canaries among the oldest and the newest entries, the version field
\* one of the two newest entries or missing, the registry reachable or not.
RegistriesOf(n, H) ==
    { [up |-> u, versions |-> IndexOf(n, H), version |-> l] :
        u \in BOOLEAN,
        l \in {Undefined} \cup {Str(IndexOf(n, H)[k]) : k \in {n - 1, n} \cap (1..n)} }

Registries ==
    UNION { UNION { RegistriesOf(n, H) : H \in SUBSET {1, n - 1, n} } : n \in 0..MaxIndexLen }

\* The requestedVersion arguments: none, the empty string, a release, a
\* canary.
Requests == {Undefined, Str(<< >>), Str(Release(1)), Str(Canary(2))}

IndexInit ==
    /\ registry \in Registries
    /\ requestedVersion \in Requests
    /\ listed = NotCalled
    /\ resolved = NotCalled
    /\ ConfigIdle
    /\ CloseIdle
    /\ TimerIdle
    /\ ClientIdle
    /\ pc = [s \in Ids |-> "new"]
    /\ version = [s \in Ids |-> NoVersion]
    /\ pyright_local = {}
    /\ promise = [s \in Ids |-> "none"]
    /\ activeSessions = {}
    /\ idleTime = [s \in Ids |-> 0]
    /\ langServerProcess = [s \in Ids |-> FALSE]
    /\ langClient = [s \in Ids |-> FALSE]
    /\ tempDir = [s \in Ids |-> FALSE]
    /\ proc = [s \in Ids |-> "none"]
    /\ init = [s \in Ids |-> "none"]
    /\ killCalls = [s \in Ids |-> 0]
    /\ rmCalls = [s \in Ids |-> 0]
    /\ rmThrew = [s \in Ids |-> FALSE]
    /\ thrown = FALSE
    /\ found = NotFound
    /\ lifetimeTimer = FALSE
    /\ timerRemaining = 0

\* A call of getPyrightVersions, settled with the registry's answer.
GetPyrightVersions ==
    /\ listed.state = "none"
    /\ listed' = getPyrightVersions(registry)
    /\ UNCHANGED <<registry, requestedVersion, resolved, configVars, closeStepVars, timerStepVars, clientVars, sessionVars>>

\* The version resolution at the head of installPyright.
ResolveVersion ==
    /\ resolved.state = "none"
    /\ resolved' = resolveVersion(requestedVersion, registry)
    /\ UNCHANGED <<registry, requestedVersion, listed, configVars, closeStepVars, timerStepVars, clientVars, sessionVars>>

IndexNext == GetPyrightVersions \/ ResolveVersion

IndexSpec == IndexInit /\ [][IndexNext]_vars

\* ------------------------------------------- the config synthesis alone
\* The variables of the session manager as they are after loading.
SessionsIdle ==
    /\ pc = [s \in Ids |-> "new"]
    /\ version = [s \in Ids |-> NoVersion]
    /\ pyright_local = {}
    /\ promise = [s \in Ids |-> "none"]
    /\ activeSessions = {}
    /\ idleTime = [s \in Ids |-> 0]
    /\ langServerProcess = [s \in Ids |-> FALSE]
    /\ langClient = [s \in Ids |-> FALSE]
    /\ tempDir = [s \in Ids |-> FALSE]
    /\ proc = [s \in Ids |-> "none"]
    /\ init = [s \in Ids |-> "none"]
    /\ killCalls = [s \in Ids |-> 0]
    /\ rmCalls = [s \in Ids |-> 0]
    /\ rmThrew = [s \in Ids |-> FALSE]
    /\ thrown = FALSE
    /\ found = NotFound
    /\ lifetimeTimer = FALSE
    /\ timerRemaining = 0

\* The state of a run that makes no version query.
IndexIdle ==
    /\ registry = NoRegistry
    /\ requestedVersion = Undefined
    /\ listed = NotCalled
    /\ resolved = NotCalled

ConfigInit ==
    /\ sessionOptions \in SessionOptionsSet
    /\ configFile = NoFile
    /\ CloseIdle
    /\ TimerIdle
    /\ ClientIdle
    /\ SessionsIdle
    /\ IndexIdle

\* synthesizePyrightConfigFile(tempDirPath, sessionOptions): the file is
\* written with the JSON of the config object.
SynthesizePyrightConfigFile ==
    /\ ~configFile.written
    /\ configFile' = [written |-> TRUE,
                      content |-> synthesizePyrightConfigFile(sessionOptions)]
    /\ UNCHANGED <<sessionOptions, indexVars, closeStepVars, timerStepVars, clientVars, sessionVars>>

ConfigNext == SynthesizePyrightConfigFile

ConfigSpec == ConfigInit /\ [][ConfigNext]_vars

\* ------------------------------------------- closeSession, step by step
\* What a session is when closeSession is called: absent (the id is not a
\* key of the map), installing (a createNewSession request whose install
\* runs: no session yet), spawnFailed (registered, the child reported
\* 'error' before 'spawn': no process handle, no client), running
\* (registered, handshake done), busy (running, with a protocol request
\* in flight).
SessionKinds == {"absent", "installing", "spawnFailed", "running", "busy"}

CloseInit ==
    \E kind \in [Ids -> SessionKinds] :
        LET Registered == {s \in Ids : kind[s] \in {"spawnFailed", "running", "busy"}}
            Spawned == {s \in Ids : kind[s] \in {"running", "busy"}}
        IN  /\ pc = [s \in Ids |->
                    CASE kind[s] = "absent" -> "new"
                      [] kind[s] = "installing" -> "install"
                      [] OTHER -> "started"]
            /\ version = [s \in Ids |->
                    IF kind[s] = "absent" THEN NoVersion ELSE LatestVersion]
            /\ pyright_local =
                    IF \E s \in Ids : kind[s] # "absent" THEN {LatestVersion} ELSE {}
            /\ promise = [s \in Ids |->
                    CASE kind[s] = "absent" -> "none"
                      [] kind[s] = "installing" -> "pending"
                      [] kind[s] = "spawnFailed" -> "rejected"
                      [] OTHER -> "resolved"]
            /\ activeSessions = Registered
            /\ idleTime = [s \in Ids |-> 0]
            /\ langServerProcess = [s \in Ids |-> s \in Spawned]
            /\ langClient = [s \in Ids |-> s \in Spawned]
            /\ tempDir = [s \in Ids |-> s \in Registered]
            /\ proc = [s \in Ids |->
                    CASE s \in Spawned -> "running"
                      [] kind[s] = "spawnFailed" -> "failed"
                      [] OTHER -> "none"]
            /\ init = [s \in Ids |-> IF s \in Spawned THEN "ok" ELSE "none"]
            /\ killCalls = [s \in Ids |-> 0]
            /\ rmCalls = [s \in Ids |-> 0]
            /\ rmThrew = [s \in Ids |-> FALSE]
            /\ thrown = FALSE
            /\ found = NotFound
            /\ lifetimeTimer = (\E s \in Ids : kind[s] # "absent")
            /\ timerRemaining =
                    IF \E s \in Ids : kind[s] # "absent"
                    THEN lifetimeTimerFrequency ELSE 0
            /\ closing = NotClosing
            /\ requests = [s \in Ids |->
                    IF kind[s] = "busy" THEN "pending" ELSE "none"]
            /\ IndexIdle
            /\ ConfigIdle
            /\ TimerIdle
            /\ ClientIdle

\* What no statement of closeSession writes.
closeFrame == <<pc, version, pyright_local, promise, idleTime, langClient,
                proc, init, thrown, found, lifetimeTimer, timerRemaining,
                indexVars, configVars, timerStepVars, clientVars>>

\* closeSession is at the statement op.
Executing(op) == closing.id # NotFound /\ closeOrder[closing.at] = op

\* Control moves to the next statement, or the call returns.
Advance ==
    closing' = IF closing.at = Len(closeOrder) THEN NotClosing
               ELSE [closing EXCEPT !.at = @ + 1]

\* closeSession(sessionId) is called by a handler: the lookup, and the
\* return when the id is not registered.
CloseBegin(s) ==
    /\ closing = NotClosing
    /\ closing' = IF s \in activeSessions THEN [id |-> s, at |-> 1] ELSE closing
    /\ UNCHANGED <<activeSessions, langServerProcess, tempDir, killCalls,
                   rmCalls, rmThrew, requests, closeFrame>>

\* LspClient.cancelRequests of the client of s: its in-flight requests are
\* settled as cancelled.
cancelRequests(s) ==
    [requests EXCEPT ![s] = IF @ = "pending" THEN "cancelled" ELSE @]

\* Mutant of CancelRequests: the requests of every client are cancelled.
CancelRequests_AllClients ==
    /\ Executing("cancelRequests")
    /\ requests' = IF langClient[closing.id]
                   THEN [s \in Ids |->
                            IF requests[s] = "pending" THEN "cancelled"
                            ELSE requests[s]]
                   ELSE requests
    /\ Advance
    /\ UNCHANGED <<activeSessions, langServerProcess, tempDir, killCalls,
                   rmCalls, rmThrew, closeFrame>>

\* session.langClient?.cancelRequests()
CancelRequests ==
    /\ Executing("cancelRequests")
    /\ requests' = IF langClient[closing.id]
                   THEN cancelRequests(closing.id) ELSE requests
    /\ Advance
    /\ UNCHANGED <<activeSessions, langServerProcess, tempDir, killCalls,
                   rmCalls, rmThrew, closeFrame>>

\* if (session.langServerProcess) session.langServerProcess.kill()
Kill ==
    /\ Executing("kill")
    /\ killCalls' = IF langServerProcess[closing.id]
                    THEN [killCalls EXCEPT ![closing.id] = @ + 1]
                    ELSE killCalls
    /\ Advance
    /\ UNCHANGED <<activeSessions, langServerProcess, tempDir, rmCalls,
                   rmThrew, requests, closeFrame>>

\* session.langServerProcess = undefined
Clear ==
    /\ Executing("clear")
    /\ langServerProcess' = [langServerProcess EXCEPT ![closing.id] = FALSE]
    /\ Advance
    /\ UNCHANGED <<activeSessions, tempDir, killCalls, rmCalls, rmThrew,
                   requests, closeFrame>>

\* activeSessions.delete(sessionId)
Delete ==
    /\ Executing("delete")
    /\ activeSessions' = activeSessions \ {closing.id}
    /\ Advance
    /\ UNCHANGED <<langServerProcess, tempDir, killCalls, rmCalls, rmThrew,
                   requests, closeFrame>>

\* try { fs.rmSync(session.tempDirPath, { recursive: true }) } catch {}
RmSync ==
    /\ Executing("rmSync")
    /\ \E throws \in BOOLEAN :
          /\ tempDir' = IF throws THEN tempDir
                        ELSE [tempDir EXCEPT ![closing.id] = FALSE]
          /\ rmThrew' = [rmThrew EXCEPT ![closing.id] = throws]
    /\ rmCalls' = [rmCalls EXCEPT ![closing.id] = @ + 1]
    /\ Advance
    /\ UNCHANGED <<activeSessions, langServerProcess, killCalls, requests,
                   closeFrame>>

\* The worker's answer to the request in flight arrives, in a turn of its
\* own: the request completes with the session it was made on, which is
\* registered or (stale) not.
ResponseArrives(s) ==
    /\ closing = NotClosing
    /\ requests[s] = "pending"
    /\ requests' = [requests EXCEPT ![s] =
            IF s \in activeSessions THEN "answered" ELSE "stale"]
    /\ UNCHANGED <<closing, activeSessions, langServerProcess, tempDir,
                   killCalls, rmCalls, rmThrew, closeFrame>>

CloseNext ==
    \/ \E s \in Ids : CloseBegin(s)
    \/ CancelRequests
    \/ Kill
    \/ Clear
    \/ Delete
    \/ RmSync
    \/ \E s \in Ids : ResponseArrives(s)

CloseSpec == CloseInit /\ [][CloseNext]_vars

\* ------------------------------------------ the reaper timer, step by step
TimerInit ==
    /\ SessionsIdle
    /\ IndexIdle
    /\ ConfigIdle
    /\ CloseIdle
    /\ TimerIdle
    /\ ClientIdle

\* What neither scheduleSessionLifetimeTimer nor its callback writes,
\* besides the sessions the sweep closes.
timerFrame == <<promise, langClient, init, found, indexVars, configVars,
                closeStepVars, clientVars>>

\* Mutant of setsTimeout: no test of lifetimeTimer.
setsTimeout_Always(armed) == TRUE

\* Whether scheduleSessionLifetimeTimer goes on to setTimeout: not when a
\* timer is recorded in lifetimeTimer.
setsTimeout(armed) == ~armed

\* scheduleSessionLifetimeTimer(): the test, and lifetimeTimer = setTimeout(...).
ScheduleSessionLifetimeTimer ==
    IF setsTimeout(lifetimeTimer)
    THEN /\ pendingTimers < MaxTimers
         /\ pendingTimers' = pendingTimers + 1
         /\ lifetimeTimer' = TRUE
         /\ timerRemaining' = lifetimeTimerFrequency
    ELSE UNCHANGED <<pendingTimers, lifetimeTimer, timerRemaining>>

\* createNewSession is called: the timer is scheduled and installPyright
\* begins.
CallCreateNewSession(s) ==
    /\ timerPc = "idle"
    /\ pc[s] = "new"
    /\ ScheduleSessionLifetimeTimer
    /\ pc' = [pc EXCEPT ![s] = "install"]
    /\ version' = [version EXCEPT ![s] = LatestVersion]
    /\ UNCHANGED <<pyright_local, activeSessions, idleTime, langServerProcess,
                   tempDir, proc, killCalls, rmCalls, rmThrew, thrown,
                   timerPc, timerFrame>>

\* installPyright returned and startSession registered the session.
SessionStarted(s) ==
    /\ timerPc = "idle"
    /\ pc[s] = "install"
    /\ startSession(s)
    /\ pyright_local' = pyright_local \cup {version[s]}
    /\ UNCHANGED <<version, langServerProcess, killCalls, rmCalls, rmThrew,
                   thrown, lifetimeTimer, timerRemaining, timerStepVars,
                   timerFrame>>

\* One unit of time passes between two turns.
TimePasses ==
    /\ timerPc = "idle"
    /\ idleTime' = [s \in Ids |->
            IF s \in activeSessions /\ idleTime[s] <= maxSessionLifetime
            THEN idleTime[s] + 1 ELSE idleTime[s]]
    /\ timerRemaining' = IF timerRemaining > 0
                         THEN timerRemaining - 1 ELSE timerRemaining
    /\ UNCHANGED <<pc, version, pyright_local, activeSessions,
                   langServerProcess, tempDir, proc, killCalls, rmCalls,
                   rmThrew, thrown, lifetimeTimer, timerStepVars, timerFrame>>

\* The callback of a timeout starts: lifetimeTimer = undefined.
TimerClear ==
    /\ timerPc = "idle"
    /\ pendingTimers > 0 /\ timerRemaining = 0
    /\ pendingTimers' = pendingTimers - 1
    /\ lifetimeTimer' = FALSE
    /\ timerPc' = "cleared"
    /\ UNCHANGED <<pc, version, pyright_local, activeSessions, idleTime,
                   langServerProcess, tempDir, proc, killCalls, rmCalls,
                   rmThrew, thrown, timerRemaining, timerFrame>>

\* The sweep: activeSessions.forEach(...).
TimerSweep ==
    /\ timerPc = "cleared"
    /\ closeSessions(timedOut)
    /\ timerPc' = "swept"
    /\ UNCHANGED <<pc, version, pyright_local, proc, lifetimeTimer,
                   timerRemaining, pendingTimers, timerFrame>>

\* The end of the callback: the test on activeSessions.size and the call
\* of scheduleSessionLifetimeTimer.
TimerReschedule ==
    /\ timerPc = "swept"
    /\ IF rescheduleAfterSweep(activeSessions)
       THEN ScheduleSessionLifetimeTimer
       ELSE UNCHANGED <<pendingTimers, lifetimeTimer, timerRemaining>>
    /\ timerPc' = "idle"
    /\ UNCHANGED <<pc, version, pyright_local, activeSessions, idleTime,
                   langServerProcess, tempDir, proc, killCalls, rmCalls,
                   rmThrew, thrown, timerFrame>>

TimerNext ==
    \/ \E s \in Ids : CallCreateNewSession(s)
    \/ \E s \in Ids : SessionStarted(s)
    \/ TimePasses
    \/ TimerClear
    \/ TimerSweep
    \/ TimerReschedule

TimerSpec == TimerInit /\ [][TimerNext]_vars


\* ---------------------------------------------- the browser's LspClient
\* getDiagnostics, updateTextDocument, the publishDiagnostics handler and
\* cancelRequests of the LspClient, one action per turn of the event loop.
\* Whether the code passed differs from _documentText is an input: both
\* answers are possible in every state.

DiagInit ==
    /\ SessionsIdle
    /\ IndexIdle
    /\ ConfigIdle
    /\ CloseIdle
    /\ TimerIdle
    /\ ClientIdle

diagFrame == <<connection, workers, settingsCalls, serverVars>>

\* The requests in the lists of _pendingDiagRequests.
QueuedRequests == UNION {pendingDiagRequests[v] : v \in DocVersions}

\* requestList.push({callback}) under the version given.
Queue(r, v) ==
    /\ pendingDiagRequests' =
           [pendingDiagRequests EXCEPT ![v] = pendingDiagRequests[v] \cup {r}]
    /\ diagCalls' = [diagCalls EXCEPT ![r] =
           [pc |-> "queued", version |-> v, promise |-> "pending",
            callbacks |-> 0]]

\* getDiagnostics(code), up to its first await.
GetDiagnostics(r, codeChanged) ==
    /\ diagCalls[r].pc = "none"
    /\ IF ~codeChanged /\ documentDiags # NoDiags
       THEN /\ diagCalls' = [diagCalls EXCEPT ![r] =
                   [pc |-> "returned", version |-> 0, promise |-> "resolved",
                    callbacks |-> 0]]
            /\ UNCHANGED <<documentVersion, pendingDiagRequests>>
       ELSE IF codeChanged
       THEN /\ documentVersion < MaxDocVersion
            /\ documentVersion' = documentVersion + 1
            /\ diagCalls' = [diagCalls EXCEPT ![r] =
                   [pc |-> "updating", version |-> documentVersion + 1,
                    promise |-> "pending", callbacks |-> 0]]
            /\ UNCHANGED pendingDiagRequests
       ELSE /\ Queue(r, documentVersion)
            /\ UNCHANGED documentVersion
    /\ UNCHANGED <<documentDiags, diagFrame>>

\* The didChange notification was sent: the executor goes on and queues
\* the request under the version updateTextDocument returned.
UpdateSent(r) ==
    /\ diagCalls[r].pc = "updating"
    /\ Queue(r, diagCalls[r].version)
    /\ UNCHANGED <<documentVersion, documentDiags, diagFrame>>

\* sendNotification rejected: updateTextDocument rethrows, the async
\* executor ends without queuing and without settling the promise.
UpdateFails(r) ==
    /\ diagCalls[r].pc = "updating"
    /\ diagCalls' = [diagCalls EXCEPT ![r].pc = "failed"]
    /\ UNCHANGED <<documentVersion, documentDiags, pendingDiagRequests, diagFrame>>

\* The handler of textDocument/publishDiagnostics, for a notification of
\* a version the server was sent, or of none.
PublishDiagnostics(v) ==
    /\ v = NoVersionInDiags \/ v <= documentVersion
    /\ documentDiags' =
           IF documentDiags = NoDiags THEN v
           ELSE IF documentDiags < v THEN v
           ELSE documentDiags
    /\ pendingDiagRequests' = [pendingDiagRequests EXCEPT ![v] = {}]
    /\ UNCHANGED <<documentVersion, diagCalls, diagFrame>>

\* request.callback([], err): reject(err) of the request's promise.
Cancelled(c) ==
    [c EXCEPT !.callbacks = c.callbacks + 1,
              !.promise = IF c.promise = "pending" THEN "rejected" ELSE c.promise]

LspClient_cancelRequests_NoClear ==
    /\ diagCalls' = [r \in DiagIds |->
           IF r \in QueuedRequests THEN Cancelled(diagCalls[r]) ELSE diagCalls[r]]
    /\ UNCHANGED <<documentVersion, documentDiags, pendingDiagRequests, diagFrame>>

\* cancelRequests()
LspClient_cancelRequests ==
    /\ diagCalls' = [r \in DiagIds |->
           IF r \in QueuedRequests THEN Cancelled(diagCalls[r]) ELSE diagCalls[r]]
    /\ pendingDiagRequests' = [v \in DocVersions |-> {}]
    /\ UNCHANGED <<documentVersion, documentDiags, diagFrame>>

DiagNext ==
    \/ \E r \in DiagIds, codeChanged \in BOOLEAN : GetDiagnostics(r, codeChanged)
    \/ \E r \in DiagIds : UpdateSent(r)
    \/ \E r \in DiagIds : UpdateFails(r)
    \/ \E v \in DocVersions : PublishDiagnostics(v)
    \/ LspClient_cancelRequests

DiagSpec == DiagInit /\ [][DiagNext]_vars


\* ------------------------------------------ LspClient.updateSettings
\* updateSettings and initialize of the LspClient that runs pyright in
\* web workers.  A connection is named by its place in the order of
\* creation; workers[k] tells whether the foreground and background
\* workers of connection k are alive (its onDispose terminates them all).

SettingsInit ==
    /\ SessionsIdle
    /\ IndexIdle
    /\ ConfigIdle
    /\ CloseIdle
    /\ TimerIdle
    /\ ClientIdle

settingsFrame == <<documentVersion, documentDiags, pendingDiagRequests,
                   diagCalls, serverVars>>

\* this.connection?.dispose(): onDispose terminates the workers.
Disposed(w) ==
    IF connection = 0 THEN w ELSE [w EXCEPT ![connection] = FALSE]

\* new Worker, createMessageConnection, this.connection = connection
Connect(w) ==
    /\ workers' = Append(w, TRUE)
    /\ connection' = Len(w) + 1

\* updateSettings(sessionOptions), up to its first await: with a
\* pyrightVersion in the options, initialize makes the connection in the
\* same turn; without one it awaits getPyrightVersions() first.
UpdateSettings(c, hasVersion) ==
    /\ settingsCalls[c] = "none"
    /\ IF hasVersion
       THEN /\ Connect(Disposed(workers))
            /\ settingsCalls' = [settingsCalls EXCEPT ![c] = "done"]
       ELSE /\ workers' = Disposed(workers)
            /\ settingsCalls' = [settingsCalls EXCEPT ![c] = "versions"]
            /\ UNCHANGED connection
    /\ UNCHANGED settingsFrame

\* getPyrightVersions() resolved: initialize goes on to make its connection.
VersionsArrive(c) ==
    /\ settingsCalls[c] = "versions"
    /\ Connect(workers)
    /\ settingsCalls' = [settingsCalls EXCEPT ![c] = "done"]
    /\ UNCHANGED settingsFrame

\* getPyrightVersions() rejected: initialize throws before new Worker.
VersionsFail(c) ==
    /\ settingsCalls[c] = "versions"
    /\ settingsCalls' = [settingsCalls EXCEPT ![c] = "failed"]
    /\ UNCHANGED <<connection, workers, settingsFrame>>

SettingsNext ==
    \/ \E c \in SettingsIds, hasVersion \in BOOLEAN : UpdateSettings(c, hasVersion)
    \/ \E c \in SettingsIds : VersionsArrive(c)
    \/ \E c \in SettingsIds : VersionsFail(c)

SettingsSpec == SettingsInit /\ [][SettingsNext]_vars

\* ======================================================== the claims
\* A session whose creation request was resolved and that is still in the map.
Live(s) == s \in activeSessions /\ promise[s] = "resolved"

C2_IdleSessionReclaimed ==
    \A s \in Ids :
        (s \in activeSessions /\ idleTime[s] > maxSessionLifetime)
            ~> (s \notin activeSessions \/ idleTime[s] <= maxSessionLifetime)

\* C3 (as stated): whenever a session is registered (between two handlers,
\* so no sweep is executing) a reaper timer is armed.
C3_TimerArmedWhileSessions == activeSessions # {} => lifetimeTimer

\* C4 (as stated): a sweep that leaves the registry empty arms no timer.
C4_NoTimerAfterEmptySweep ==
    [][(LifetimeTimerFire /\ activeSessions' = {}) => ~lifetimeTimer']_vars

\* C5: closeSession is idempotent.  A close of an id that is not registered
\* changes nothing, a close leaves the id unregistered (so a second close
\* is such a no-op), and over all close calls of all handlers a session's
\* worker is killed at most once and its directory removed at most once.
C5_CloseIdempotent ==
    /\ [](\A s \in Ids : killCalls[s] <= 1 /\ rmCalls[s] <= 1)
    /\ [][\A s \in Ids : CloseSession(s) =>
            /\ s \notin activeSessions'
            /\ s \notin activeSessions => UNCHANGED vars]_vars

\* closeSession ran at least twice for s (exit handler, then close handler).
C5_Witness ==
    \E s \in Ids : proc[s] = "closed" /\ init[s] = "ok" /\ killCalls[s] = 1 /\ rmCalls[s] = 1

\* C6: closeSession never fails: no exception leaves it, also when rmSync
\* throws, and after it the id is not in the registry.
C6_CloseNeverFails ==
    /\ [](~thrown)
    /\ [](\A s \in Ids : rmThrew[s] => s \notin activeSessions)
    /\ [][\A s \in Ids : CloseSession(s) => ~thrown' /\ s \notin activeSessions']_vars

\* A close whose rmSync threw: the directory is still there, the id is gone.
C6_Witness ==
    \E s \in Ids : rmThrew[s] /\ tempDir[s] /\ killCalls[s] = 1 /\ s \notin activeSessions

\* C7 (as stated): after a failed handshake the request is rejected, the id
\* is not registered, the worker has been killed and the scratch directory
\* does not exist.
C7_HandshakeFailureNoResidue ==
    \A s \in Ids : init[s] = "failed" =>
        /\ promise[s] = "rejected"
        /\ s \notin activeSessions
        /\ killCalls[s] = 1
        /\ ~tempDir[s]

\* C7 (amended): ... kill() has been called on the worker once and the
\* removal of the scratch directory has been attempted once; the directory
\* is gone unless that rmSync threw.
C7_HandshakeFailureTornDown ==
    \A s \in Ids : init[s] = "failed" =>
        /\ promise[s] = "rejected"
        /\ s \notin activeSessions
        /\ killCalls[s] = 1
        /\ rmCalls[s] = 1
        /\ tempDir[s] => rmThrew[s]

C7_Witness == \E s \in Ids : init[s] = "failed" /\ ~tempDir[s] /\ killCalls[s] = 1

\* The child of s could not be spawned ('error' without 'spawn').
SpawnFailed(s) == pc[s] = "started" /\ ~langClient[s] /\ proc[s] \in {"failed", "closed"}

\* C8 (as stated): after an 'error' before 'spawn' the request is rejected,
\* the id is not registered, no kill was attempted and the scratch
\* directory is removed.
C8_SpawnErrorNoResidue ==
    \A s \in Ids : SpawnFailed(s) =>
        /\ promise[s] = "rejected"
        /\ s \notin activeSessions
        /\ killCalls[s] = 0
        /\ ~tempDir[s]

\* C8 (amended): ... the removal of the scratch directory has been
\* attempted once; the directory is gone unless that rmSync threw.
C8_SpawnErrorTornDown ==
    \A s \in Ids : SpawnFailed(s) =>
        /\ promise[s] = "rejected"
        /\ s \notin activeSessions
        /\ killCalls[s] = 0
        /\ rmCalls[s] = 1
        /\ tempDir[s] => rmThrew[s]

C8_Witness == \E s \in Ids : SpawnFailed(s) /\ ~tempDir[s] /\ rmCalls[s] = 1

\* An 'exit', 'close' or 'error' event of the worker of a session whose
\* creation request was resolved.
WorkerEvent(s) ==
    promise[s] = "resolved" /\ (OnExit(s) \/ OnClose(s) \/ OnRuntimeError(s))

\* C9 (as stated): such an event rejects nothing, leaves the session
\* unregistered with its scratch directory deleted, and the id stays
\* not-found for every later lookup.
C9_WorkerEventNoResidue ==
    /\ [][\A s \in Ids : WorkerEvent(s) =>
            promise' = promise /\ s \notin activeSessions' /\ ~tempDir'[s]]_vars
    /\ [][\A s \in Ids : (pc[s] = "started" /\ s \notin activeSessions) =>
            s \notin activeSessions']_vars
    /\ [][\A s \in Ids : (GetSessionById(s) /\ s \notin activeSessions) =>
            found' = NotFound]_vars

\* C9 (amended): ... leaves the session unregistered with the removal of
\* its scratch directory attempted exactly once (the directory is gone
\* unless that rmSync threw) ...
C9_WorkerEventTearsDown ==
    /\ [][\A s \in Ids : WorkerEvent(s) =>
            /\ promise' = promise
            /\ s \notin activeSessions'
            /\ rmCalls'[s] = 1
            /\ tempDir'[s] => rmThrew'[s]]_vars
    /\ [][\A s \in Ids : (pc[s] = "started" /\ s \notin activeSessions) =>
            s \notin activeSessions']_vars
    /\ [][\A s \in Ids : (GetSessionById(s) /\ s \notin activeSessions) =>
            found' = NotFound]_vars

\* A session that was live when its worker exited, torn down by the event.
C9_Witness ==
    \E s \in Ids : /\ promise[s] = "resolved" /\ proc[s] = "exited"
                   /\ s \notin activeSessions /\ ~tempDir[s] /\ rmCalls[s] = 1

\* C10: getSessionById on a registered id returns the session and sets its
\* idle time to zero, changing nothing else; on any other id it returns
\* not-found and changes nothing; and a sweep closes a session only if more
\* than maxSessionLifetime passed since its last lookup (or its creation).
C10_ReadWithTouch ==
    /\ [][\A s \in Ids : GetSessionById(s) =>
            IF s \in activeSessions
            THEN /\ found' = s
                 /\ idleTime' = [idleTime EXCEPT ![s] = 0]
                 /\ UNCHANGED <<pc, version, pyright_local, promise, activeSessions,
                                langServerProcess, langClient, tempDir, proc, init,
                                killCalls, rmCalls, rmThrew, thrown, lifetimeTimer,
                                timerRemaining>>
            ELSE /\ found' = NotFound
                 /\ UNCHANGED <<pc, version, pyright_local, promise, activeSessions,
                                idleTime, langServerProcess, langClient, tempDir, proc,
                                init, killCalls, rmCalls, rmThrew, thrown, lifetimeTimer,
                                timerRemaining>>]_vars
    /\ [][\A s \in Ids : (LifetimeTimerFire /\ s \in activeSessions /\ s \notin activeSessions')
            => idleTime[s] > maxSessionLifetime]_vars

\* A session that was looked up after a sweep it survived.
C10_Witness ==
    \E s \in Ids : found = s /\ Live(s) /\ idleTime[s] = 0 /\ ~lifetimeTimer

\* ------------------------------------------------------- the version cache
\* No installation is in flight.
AtRest == \A s \in Ids : pc[s] \notin {"mkdir", "install"}

\* C11 (as stated): at rest the number of version directories under
\* pyright_local is at most CacheCapacity (here for runs in which no
\* installation failed, so that every directory is an installed version).
C11_CacheCapacityBound ==
    (AtRest /\ \A s \in Ids : pc[s] # "failed") =>
        Cardinality(pyright_local) <= CacheCapacity

\* C12 (as stated): when an install completes that made the store hold
\* CacheCapacity + 1 versions while no session is registered and no other
\* request is in flight (no pins), exactly one version other than the one
\* just installed is evicted and the store holds CacheCapacity directories.
C12_EvictionAfterInstall ==
    [][\A s \in Ids :
        (/\ InstallOk(s)
         /\ Cardinality(pyright_local) = CacheCapacity + 1
         /\ activeSessions = {}
         /\ \A r \in Ids \ {s} : pc[r] \in {"new", "failed", "started"})
        => /\ Cardinality(pyright_local') = CacheCapacity
           /\ Cardinality(pyright_local \ pyright_local') = 1
           /\ version[s] \in pyright_local']_vars

C14_CacheHitShortCircuit ==
    [][\A s \in Ids :
        (/\ pc[s] \in {"new", "latest"}
         /\ pc'[s] \notin {"new", "latest", "failed"}
         /\ version'[s] \in pyright_local)
        => /\ pc'[s] = "started"
           /\ s \in activeSessions'
           /\ \A r \in Ids : pc'[r] = "install" => pc[r] = "install"
           /\ pyright_local' = pyright_local]_vars

\* A request was started on a disk that held its version from the start:
\* nothing was installed in this run.
C14_Witness ==
    \E s \in Ids : pc[s] = "started" /\ version[s] \in WarmDisk /\ pyright_local = WarmDisk

\* C15 (as stated): every request for which installPyright succeeded, by a
\* cache hit or by an install, has left a time of last use recorded for its
\* version.
C15_UsageBump ==
    \A s \in Ids : pc[s] = "started" => version[s] \in usageIndex

\* Request s failed in installPyright after its version was known, and no
\* other request of the run asked for that version.
OnlyFailedInstall(s) ==
    /\ pc[s] = "failed" /\ version[s] # NoVersion
    /\ \A r \in Ids \ {s} : version[r] # version[s]

\* C16 (as stated): after a failed installation the request is rejected
\* and the version's directory does not exist, and a later request for the
\* version installs again instead of taking the cache-hit path.
C16_FailedInstallLeavesNothing ==
    /\ [](\A s \in Ids : OnlyFailedInstall(s) =>
            promise[s] = "rejected" /\ version[s] \notin pyright_local)
    /\ [][\A s, r \in Ids :
            (/\ OnlyFailedInstall(s)
             /\ pc[r] \in {"new", "latest"}
             /\ pc'[r] \notin {"new", "latest", "failed"}
             /\ version'[r] = version[s])
            => pc'[r] = "mkdir"]_vars

\* C17 (as stated): manager.install is never running twice for one version,
\* and no request is started from a version directory while an install
\* into that directory is still running: the second request waits for the
\* first one's install.
C17_NoDuplicateInstall ==
    /\ [](\A v \in Versions :
            Cardinality({s \in Ids : pc[s] = "install" /\ version[s] = v}) <= 1)
    /\ [][\A s \in Ids :
            (pc[s] # "started" /\ pc'[s] = "started")
            => ~\E r \in Ids \ {s} : pc'[r] = "install" /\ version'[r] = version'[s]]_vars

\* Request s has selected its version directory and its session is
\* registered, the creation request still pending.
InFlight(s) == pc[s] = "started" /\ promise[s] = "pending" /\ s \in activeSessions

ReleasePositions(idx) == {p \in 1..Len(idx) : ~includes(idx[p], "-")}

\* C19 (as stated): a requested version string is used verbatim; with no
\* version requested the result is the newest entry of the registry's
\* version list that contains no hyphen (here for registry answers that
\* carry a version field), and a failure of the query is propagated.
C19_ResolveNewestRelease ==
    resolved.state # "none" =>
        LET idx == registry.versions
            P == ReleasePositions(idx)
        IN  /\ truthy(requestedVersion) => resolved = Resolved(requestedVersion.value)
            /\ (requestedVersion = Undefined /\ ~registry.up) => resolved = Rejected
            /\ (/\ requestedVersion = Undefined /\ registry.up
                /\ registry.version.type = "string" /\ P # {})
               => resolved = Resolved(idx[CHOOSE p \in P : \A q \in P : q <= p])

\* C19 (amended): a requested non-empty version string is used verbatim;
\* otherwise the result is the version field of the registry's answer, as
\* it is (with or without hyphen, newest of the list or not), and when
\* the registry is not reachable or the field is no string the resolution
\* fails: never a version of the list or of the disk instead.
C19_ResolveLatestField ==
    resolved.state # "none" =>
        IF truthy(requestedVersion)
        THEN resolved = Resolved(requestedVersion.value)
        ELSE IF registry.up /\ registry.version.type = "string"
             THEN resolved = Resolved(registry.version.value)
             ELSE resolved = Rejected

\* No version requested and the registry's version field names a canary
\* while the list holds a newer release: the canary is the result.
C19_Witness ==
    /\ requestedVersion = Undefined
    /\ resolved.state = "resolved" /\ includes(resolved.value, "-")
    /\ \E p \in ReleasePositions(registry.versions) :
            Len(registry.versions) = p /\ registry.versions[p] # resolved.value

OverridesOf(opts) ==
    IF opts.configOverrides.type = "object"
    THEN DOMAIN opts.configOverrides.value ELSE {}

\* C21 as stated: in the written configuration every configOverrides key
\* has the caller's boolean; where no override names the property,
\* pythonVersion is the caller's string or "3.12" when the caller passed
\* none, pythonPlatform the caller's string or "All" when the caller passed
\* none, and typeCheckingMode is present exactly when the caller passed a
\* string, with that string; and the configuration has no other key.
C21_ConfigAsSpecified ==
    configFile.written =>
        LET c == configFile.content
            o == sessionOptions
            K == OverridesOf(o)
        IN  /\ \A k \in K : c[k] = Bool(o.configOverrides.value[k])
            /\ "pythonVersion" \notin K =>
                   c["pythonVersion"] = IF o.pythonVersion.type = "string"
                                        THEN o.pythonVersion
                                        ELSE Str(defaultPythonVersion)
            /\ "pythonPlatform" \notin K =>
                   c["pythonPlatform"] = IF o.pythonPlatform.type = "string"
                                         THEN o.pythonPlatform
                                         ELSE Str(defaultPythonPlatform)
            /\ "typeCheckingMode" \notin K =>
                   IF o.typeCheckingMode.type = "string"
                   THEN /\ "typeCheckingMode" \in DOMAIN c
                        /\ c["typeCheckingMode"] = o.typeCheckingMode
                   ELSE "typeCheckingMode" \notin DOMAIN c

\* C21, amended: the same, with an empty string treated like an absent
\* property: pythonVersion is the caller's non-empty string or else "3.12",
\* pythonPlatform the caller's non-empty string or else "All",
\* typeCheckingMode is present exactly when the caller passed a non-empty
\* string; every configOverrides key has the caller's boolean, also where
\* it names one of these three properties; and the configuration has no
\* other key.
C21_ConfigSynthesis ==
    configFile.written =>
        LET c == configFile.content
            o == sessionOptions
            K == OverridesOf(o)
        IN  /\ \A k \in K : c[k] = Bool(o.configOverrides.value[k])
            /\ "pythonVersion" \notin K =>
                   c["pythonVersion"] = IF truthy(o.pythonVersion)
                                        THEN o.pythonVersion
                                        ELSE Str(defaultPythonVersion)
            /\ "pythonPlatform" \notin K =>
                   c["pythonPlatform"] = IF truthy(o.pythonPlatform)
                                         THEN o.pythonPlatform
                                         ELSE Str(defaultPythonPlatform)
            /\ "typeCheckingMode" \notin K =>
                   IF truthy(o.typeCheckingMode)
                   THEN /\ "typeCheckingMode" \in DOMAIN c
                        /\ c["typeCheckingMode"] = o.typeCheckingMode
                   ELSE "typeCheckingMode" \notin DOMAIN c
            /\ DOMAIN c = {"pythonVersion", "pythonPlatform"} \cup K \cup
                   (IF truthy(o.typeCheckingMode)
                    THEN {"typeCheckingMode"} ELSE {})

\* A written configuration where the caller set pythonVersion and also
\* overrode the key pythonVersion, and the override won.
C21_Witness ==
    /\ configFile.written
    /\ truthy(sessionOptions.pythonVersion)
    /\ "pythonVersion" \in OverridesOf(sessionOptions)
    /\ configFile.content["pythonVersion"] =
           Bool(sessionOptions.configOverrides.value["pythonVersion"])
    /\ configFile.content["pythonPlatform"] = Str(defaultPythonPlatform)

\* C22: the registered sessions are the keys of a map, each the id of one
\* createNewSession request; an id enters the registry only in the step
\* that starts its session, a started request never starts again, and so
\* an id that was removed from the registry is never inserted again, by no
\* operation and no late worker callback.
C22_NoResurrection ==
    [][\A s \in Ids :
          /\ pc[s] = "started" => pc'[s] = "started"
          /\ (s \in activeSessions' /\ s \notin activeSessions) =>
                 (pc[s] # "started" /\ pc'[s] = "started")
          /\ (pc[s] = "started" /\ s \notin activeSessions) =>
                 s \notin activeSessions']_vars

\* A session removed from the registry while its handshake is pending and
\* its worker still runs: the handshake completion will arrive late.
C22_Witness ==
    \E s \in Ids :
        /\ pc[s] = "started"
        /\ s \notin activeSessions
        /\ init[s] = "pending"
        /\ proc[s] = "running"

\* The request s is being resolved or has just failed to resolve: steps
\* from "new" to "latest" (createNewSession without a version) and from
\* "latest" to "failed" (getPyrightLatestVersion rejected).
ResolutionStep(s) ==
    \/ pc[s] = "new" /\ pc'[s] = "latest"
    \/ pc[s] = "latest" /\ pc'[s] = "failed"

\* C24: a createNewSession whose version resolution fails is rejected, and
\* neither of its two steps (the call, the failure) changes the session
\* registry, the installed versions, the scratch directories or the worker
\* processes; the failed request has no session, directory or worker.
C24_ResolutionFailureNoPartialState ==
    [][\A s \in Ids :
          /\ ResolutionStep(s) =>
                 UNCHANGED <<activeSessions, pyright_local, tempDir, proc,
                             langServerProcess, langClient>>
          /\ (pc[s] = "latest" /\ pc'[s] = "failed") =>
                 /\ promise'[s] = "rejected"
                 /\ version'[s] = NoVersion
                 /\ s \notin activeSessions'
                 /\ ~tempDir'[s]
                 /\ proc'[s] = "none"]_vars

\* A request rejected because the latest version could not be resolved,
\* while another session is registered and a version is installed.
C24_Witness ==
    \E s \in Ids :
        /\ pc[s] = "failed"
        /\ version[s] = NoVersion
        /\ promise[s] = "rejected"
        /\ activeSessions # {}
        /\ pyright_local # {}

\* The session of request s was started and is no longer registered.
Closed(s) == pc[s] = "started" /\ s \notin activeSessions

\* C29: whatever teardown paths run on a session and in whatever order
\* (closeSession by a caller, the sweep, the handshake failure, the
\* worker's error, exit and close handlers), a registered session has its
\* directory and was never killed or removed; a session no longer
\* registered is in the state one close leaves (no process handle, one
\* kill if the worker had spawned and none otherwise, one rmSync, the
\* directory gone unless that rmSync threw); and no later step changes
\* any of this.
C29_ConvergingTeardown ==
    /\ [](\A s \in Ids :
            /\ s \in activeSessions =>
                   /\ pc[s] = "started" /\ tempDir[s]
                   /\ killCalls[s] = 0 /\ rmCalls[s] = 0
            /\ Closed(s) =>
                   /\ ~langServerProcess[s]
                   /\ killCalls[s] = IF langClient[s] THEN 1 ELSE 0
                   /\ rmCalls[s] = 1
                   /\ tempDir[s] <=> rmThrew[s])
    /\ [][\A s \in Ids : Closed(s) =>
            /\ s \notin activeSessions'
            /\ UNCHANGED <<killCalls[s], rmCalls[s], tempDir[s], rmThrew[s],
                           langServerProcess[s]>>]_vars

\* A session the handshake failure closed, whose worker then exited and
\* closed: three teardown paths ran on it.
C29_Witness ==
    \E s \in Ids :
        /\ Closed(s)
        /\ init[s] = "failed"
        /\ proc[s] = "closed"
        /\ killCalls[s] = 1
        /\ rmCalls[s] = 1

\* C30: the sweep closes the registered sessions idle for more than
\* maxSessionLifetime (they leave the registry and rmSync runs on their
\* directory), and every registered session idle for maxSessionLifetime or
\* less stays registered with its idle time, process handle, client,
\* directory, worker, handshake and request as they were.
C30_SweepSelectivity ==
    [][LifetimeTimerFire =>
        \A s \in activeSessions :
            IF idleTime[s] > maxSessionLifetime
            THEN /\ s \notin activeSessions'
                 /\ rmCalls'[s] = rmCalls[s] + 1
                 /\ ~langServerProcess'[s]
            ELSE /\ s \in activeSessions'
                 /\ UNCHANGED <<idleTime[s], langServerProcess[s],
                                langClient[s], tempDir[s], proc[s], init[s],
                                promise[s], killCalls[s], rmCalls[s]>>]_vars

\* After a sweep: a session only the sweep can have closed (its handshake
\* is pending and its worker runs) is gone, and a session idle for exactly
\* maxSessionLifetime is still registered.
C30_Witness ==
    \E s, r \in Ids :
        /\ Closed(s) /\ init[s] = "pending" /\ proc[s] = "running"
        /\ r \in activeSessions /\ idleTime[r] = maxSessionLifetime
        /\ ~lifetimeTimer

\* No createNewSession was called yet: the server has just started.
JustStarted == \A s \in Ids : pc[s] = "new"

\* C25 (as stated): at every quiescent point after a version was selected
\* for a session (installed or found installed), the index on stable
\* storage equals the in-memory usage index and has an entry for exactly
\* the installed versions, so that a restart restores them (here for runs
\* in which no installation failed, so that every directory is an
\* installed version).
C25_PersistedIndex ==
    (/\ AtRest
     /\ \E s \in Ids : pc[s] = "started"
     /\ \A s \in Ids : pc[s] # "failed") =>
        /\ persistedIndex = usageIndex
        /\ persistedIndex = pyright_local

\* C26 (as stated): after startup the set of index entries equals the set
\* of existing version directories.
C26_StartupReconciled ==
    JustStarted => usageIndex = pyright_local

C28_RecordLast ==
    \A s \in Ids : Closed(s) => rmCalls[s] >= 1

\* C28, amended: closeSession requests the worker's termination and clears
\* the handle, then removes the record, then removes the directory: the
\* removal of a directory is attempted only when its session is no longer
\* registered, a session no longer registered has no process handle and
\* its worker, if it had spawned, was killed; and when closeSession has
\* returned the removal of the directory was attempted once.
C28_RecordBeforeDirectory ==
    \A s \in Ids :
        /\ rmCalls[s] > 0 => s \notin activeSessions
        /\ Closed(s) =>
               /\ ~langServerProcess[s]
               /\ killCalls[s] = IF langClient[s] THEN 1 ELSE 0
               /\ closing = NotClosing => rmCalls[s] = 1

\* Inside closeSession: the record is deleted, the worker was killed, the
\* removal of the directory is the statement to come.
C28_Witness ==
    \E s \in Ids :
        /\ closing.id = s
        /\ s \notin activeSessions
        /\ killCalls[s] = 1
        /\ rmCalls[s] = 0 /\ tempDir[s]

\* The first of the preinstalled versions in version-string order.
FirstPreinstalled == "0.9." \o ToString(1)

\* C31 (as stated): when an install completes on a store that holds the
\* CacheCapacity preinstalled versions and the new one, none of them
\* pinned and none with a recorded time of use (all tied), the version
\* evicted is the first in version-string order, in every run.
C31_EvictionTieBreak ==
    [][\A s \in Ids :
        (/\ InstallOk(s)
         /\ pyright_local = Preinstalled \cup {version[s]}
         /\ version[s] \notin Preinstalled
         /\ activeSessions = {}
         /\ \A r \in Ids \ {s} : pc[r] \in {"new", "failed", "started"})
        => pyright_local \ pyright_local' = {FirstPreinstalled}]_vars

C33_CreationSettles ==
    \A s \in Ids :
        (promise[s] = "pending") ~> (promise[s] \in {"resolved", "rejected"})

\* C34 (as stated): in the step that resolves a creation request, the id
\* it resolves with is registered, with its process handle and client set.
C34_ResolvesLive ==
    [][\A s \in Ids :
          (promise[s] = "pending" /\ promise'[s] = "resolved") =>
              /\ s \in activeSessions'
              /\ langServerProcess'[s]
              /\ langClient'[s]]_vars

\* The directory of version v exists, and an install into it is running
\* or the only requests that installed into it have failed.
Incomplete(v) ==
    /\ v \in pyright_local
    /\ \/ \E r \in Ids : version[r] = v /\ pc[r] = "install"
       \/ /\ \E r \in Ids : version[r] = v /\ pc[r] = "failed"
          /\ ~\E r \in Ids : version[r] = v /\ pc[r] = "started"

\* C35 (as stated): no request takes the 'already installed' path (from
\* the version lookup straight to startSession) into a directory whose
\* install is still running or has failed.
C35_NoStartFromIncomplete ==
    [][\A s \in Ids :
          (pc[s] \in {"new", "latest"} /\ pc'[s] = "started") =>
              ~Incomplete(version'[s])]_vars

\* The worker of request s is a running process.
WorkerRuns(s) == proc[s] \in {"forked", "running"}

C37_OneTimer ==
    /\ pendingTimers <= 1
    /\ (pendingTimers = 1) <=> lifetimeTimer
    /\ timerPc \in {"cleared", "swept"} => ~lifetimeTimer /\ pendingTimers = 0

\* Two createNewSession calls were made and no session is registered yet:
\* the second call found the timer armed, and one timeout is pending.
C37_Witness ==
    /\ \A s \in Ids : pc[s] = "install"
    /\ Cardinality(Ids) >= 2
    /\ lifetimeTimer /\ pendingTimers = 1
    /\ timerPc = "idle"


\* C38: when a publishDiagnostics notification for version v arrives, the
\* requests queued for v are answered; no getDiagnostics call whose promise
\* is pending and whose callback was queued is missing from the pending map.
C38_NoRequestDropped ==
    \A r \in DiagIds :
        diagCalls[r].pc = "queued" /\ diagCalls[r].promise = "pending"
            => r \in pendingDiagRequests[diagCalls[r].version]

C40_OneConnectionAlive ==
    (\A c \in SettingsIds : settingsCalls[c] # "versions")
        => \A k \in 1..Len(workers) : workers[k] => k = connection

====
